---------------------------- MODULE Spec2Model ----------------------------
(***************************************************************************)
(* A model of hashmap2's adaptively hashed Robin Hood map: the adaptive    *)
(* hash-builder state (adaptive_hashing.rs, sip_hash_state.rs), the        *)
(* displacement safeguard and its remediation (adaptive_map.rs), the       *)
(* entry views (entry.rs, internal_entry.rs) and the raw-table, search,    *)
(* Robin Hood insertion, removal and growth procedures they call.          *)
(*                                                                         *)
(* 64-bit words are sequences of 8 bytes, least significant first, since   *)
(* TLC's integers are 32 bits wide; all u64 arithmetic is done on them     *)
(* modulo 2^64 as the code does it.                                        *)
(***************************************************************************)
EXTENDS Integers, Sequences, FiniteSets, TLC

(***************************************************************************)
(* Bounds of the model.                                                    *)
(***************************************************************************)
\* How many of the keys of VALUES the insertion loop may insert.
NValues == 141
\* The largest table the model allocates; a larger request is not taken.
MaxCapacity == 1024
\* Values are drawn from 1..MaxVal by the calls outside the loop.
MaxVal == 1
\* How many calls other than the loop's insertions are made.
MaxOps == 1
\* reserve is called with 1..MaxReserve.
MaxReserve == 2

(***************************************************************************)
(* u64 arithmetic on byte words.                                           *)
(***************************************************************************)
WordZero == <<0, 0, 0, 0, 0, 0, 0, 0>>

\* The u64 holding n, for 0 <= n < 2^31.
WordOf(n) ==
    <<n % 256, (n \div 256) % 256, (n \div 65536) % 256, (n \div 16777216) % 256,
      0, 0, 0, 0>>

\* Byte i (1..8) of w, and 0 beyond the word.
WordByte(w, i) == IF i <= 8 THEN w[i] ELSE 0

Pow2(n) == 2 ^ n

\* w >> s for 0 <= s < 64.
WordShr(w, s) ==
    LET q == s \div 8
        r == s % 8
        B(i) == (WordByte(w, i + q) \div Pow2(r))
                + (WordByte(w, i + q + 1) % Pow2(r)) * Pow2(8 - r)
    IN  <<B(1), B(2), B(3), B(4), B(5), B(6), B(7), B(8)>>

RECURSIVE ByteXor(_, _, _)
\* a ^ b on the low n bits of two bytes.
ByteXor(a, b, n) ==
    IF n = 0 THEN 0
    ELSE ((a + b) % 2) + 2 * ByteXor(a \div 2, b \div 2, n - 1)

\* a ^ b.
WordXor(a, b) ==
    LET B(i) == ByteXor(a[i], b[i], 8)
    IN  <<B(1), B(2), B(3), B(4), B(5), B(6), B(7), B(8)>>

\* Column k (1..8) of the schoolbook product of a and b.
MulColumn(a, b, k) ==
    LET RECURSIVE Sum(_)
        Sum(i) == IF i = 0 THEN 0 ELSE a[i] * b[k + 1 - i] + Sum(i - 1)
    IN  Sum(k)

RECURSIVE MulCarry(_, _, _)
\* The carry out of column k of the product of a and b.
MulCarry(a, b, k) ==
    IF k = 0 THEN 0 ELSE (MulColumn(a, b, k) + MulCarry(a, b, k - 1)) \div 256

\* a.wrapping_mul(b).
WordMul(a, b) ==
    LET B(k) == (MulColumn(a, b, k) + MulCarry(a, b, k - 1)) % 256
    IN  <<B(1), B(2), B(3), B(4), B(5), B(6), B(7), B(8)>>

RECURSIVE SubBorrow(_, _, _)
\* The borrow out of byte k of a - b.
SubBorrow(a, b, k) ==
    IF k = 0 THEN 0
    ELSE IF a[k] - b[k] - SubBorrow(a, b, k - 1) < 0 THEN 1 ELSE 0

\* a - b as the machine computes it on u64: modulo 2^64.
WordSub(a, b) ==
    LET B(k) == (256 + a[k] - b[k] - SubBorrow(a, b, k - 1)) % 256
    IN  <<B(1), B(2), B(3), B(4), B(5), B(6), B(7), B(8)>>

RECURSIVE WordGreaterFrom(_, _, _)
\* a > b on the bytes k..1, the most significant first.
WordGreaterFrom(a, b, k) ==
    IF k = 0 THEN FALSE
    ELSE IF a[k] # b[k] THEN a[k] > b[k]
    ELSE WordGreaterFrom(a, b, k - 1)

\* a > b on u64.
WordGreater(a, b) == WordGreaterFrom(a, b, 8)

\* w as usize & (m - 1) for a power of two m <= 2^16: the low bits of w.
WordLow(w, m) == (w[1] + 256 * w[2]) % m

(***************************************************************************)
(* adaptive_hashing.rs: the one-shot mix and the adaptive state.           *)
(***************************************************************************)
\* 14029467366897019727 = 0xC2B2AE3D27D4EB4F
PRIME_2 == <<79, 235, 212, 39, 61, 174, 178, 194>>
\* 1609587929392839161 = 0x165667B19E3779F9
PRIME_3 == <<249, 121, 55, 158, 177, 103, 86, 22>>

\* hash ^= hash >> s
XorShift(hash, s) == WordXor(hash, WordShr(hash, s))

\* Xxhash's finalizer.
mix(data) ==
    XorShift(WordMul(XorShift(WordMul(XorShift(data, 33), PRIME_2), 29), PRIME_3), 32)

\* The keys of the map are u32: Hash for u32 writes its 4 bytes once, and
\* load_u64_le zero-extends them to a u64 in little-endian order.
load_u64_le(key) == WordOf(key)

\* The canonical keys of test_adaptive_map: they all mix to
\* N * 2^23 + 1523546 +/- 2.
VALUES == <<
    513314, 2977019, 3921903, 5005242, 6124431, 7696812, 16129307, 16296222, 17425488,
    17898424, 19926075, 24768203, 25614709, 29006382, 30234341, 32377109, 34394074,
    40324616, 40892565, 43025295, 43208269, 43761687, 43883113, 45274367, 47850630,
    48320162, 48458322, 48960668, 49470322, 50545229, 51305930, 51391781, 54465806,
    54541272, 55497339, 55788640, 57113511, 58250085, 58326435, 59316149, 62059483,
    64136437, 64978683, 65076823, 66571125, 66632487, 68067917, 69921206, 70107088,
    71829636, 76189936, 78639014, 80841986, 81844602, 83028134, 85818283, 86768196,
    90374529, 91119955, 91540016, 93761675, 94583431, 95027700, 95247246, 95564585,
    95663108, 95742804, 96147866, 97538112, 101129622, 101782620, 102170444,
    104790535, 104815436, 105802703, 106364729, 106520836, 106563112, 107893429,
    112185856, 113337504, 116895916, 122566166, 123359972, 123897385, 124028529,
    125100458, 127234401, 128292718, 129767575, 132088268, 133737047, 133796663,
    135903283, 136513103, 138868673, 139106372, 141282728, 141628856, 143250884,
    143784740, 149114217, 150882858, 151116713, 152221499, 154271016, 155574791,
    156179900, 157228942, 157518087, 159572211, 161327800, 161750984, 162237441,
    164793050, 165064176, 166764350, 166847618, 167111553, 168117915, 169230761,
    170322861, 170937855, 172389295, 173619266, 177610645, 178415544, 179549865,
    185538500, 185906457, 195946437, 196591640, 196952032, 197505405, 200021193,
    201058930, 201496104, 204691301, 206144773, 207320627, 211221882, 215434456
>>

\* The keys the model inserts: the first NValues of VALUES, in list order by
\* the insertion loop; the calls outside the loop are made on the first.
SeqKeys == {VALUES[i] : i \in 1..NValues}
FreeKeys == {VALUES[1]}
Keys == SeqKeys \cup FreeKeys
Vals == 1..MaxVal
ReserveArgs == {MaxReserve}


\* Option::None.
None == [tag |-> "None"]
Some(x) == [tag |-> "Some", val |-> x]

(***************************************************************************)
(* sip_hash_state.rs: the keyed hash state.                                *)
(***************************************************************************)
\* The key pairs the OS RNG may hand out: two under which the keys of VALUES
\* scatter and one, KnownSecret, under which they collide.  For every pair
\* there are keys that collide under it, which one who knows the pair can
\* find; the keys of the model being those of VALUES, it is the pair that is
\* chosen to fit the keys: under it they fall into the four buckets they
\* fall into under mix, in another order.
KnownSecret == [k0 |-> WordZero, k1 |-> <<1, 0, 0, 0, 0, 0, 0, 0>>]

Secrets ==
    { [k0 |-> <<103, 69, 35, 1, 239, 205, 171, 137>>,
       k1 |-> <<16, 50, 84, 118, 152, 186, 220, 254>>],
      [k0 |-> <<21, 124, 74, 127, 185, 121, 55, 158>>,
       k1 |-> <<235, 17, 49, 19, 187, 73, 208, 243>>],
      KnownSecret }

FirstSecret == CHOOSE s \in Secrets : TRUE

\* thread_local KEYS before its first use.
KeysUninit == [tag |-> "uninit"]

\* SipHashState::new(): the thread's KEYS, drawn from the RNG on first use.
\* Gives the new state and the thread-local afterwards.
SipHashState_new(keys, rng) ==
    LET k == IF keys = KeysUninit THEN [tag |-> "init", k0 |-> rng.k0, k1 |-> rng.k1]
             ELSE keys
    IN  [state |-> [k0 |-> k.k0, k1 |-> k.k1], keys |-> k]

\* SipHashState::build_hasher, then write and finish of the hasher: std's
\* SipHasher13 keyed with (k0, k1).  The hasher is std's and not the
\* repository's; the model takes for it a function of the key pair and the
\* written word that scatters the keys of VALUES, which is all the map
\* asks of it.
SipHasher13(state, data) == WordXor(mix(WordXor(data, state.k0)), state.k1)

(***************************************************************************)
(* adaptive_hashing.rs: AdaptiveState.                                     *)
(***************************************************************************)
new_for_fast_hashing == [inner |-> None]

new_for_safe_hashing(keys, rng) ==
    LET s == SipHashState_new(keys, rng)
    IN  [state |-> [inner |-> Some(s.state)], keys |-> s.keys]

\* *self = AdaptiveState::new_for_safe_hashing()
switch_to_safe_hashing(self, keys, rng) == new_for_safe_hashing(keys, rng)

\* uses_safe_hashing with the test of the option turned round.
uses_safe_hashing_is_none(self) == self.inner.tag = "None"

uses_safe_hashing(self) == self.inner.tag = "Some"

\* A Default that builds the state for fast hashing.
AdaptiveState_default_fast(keys, rng) == [state |-> new_for_fast_hashing, keys |-> keys]

\* impl Default for AdaptiveState
AdaptiveState_default(keys, rng) == new_for_safe_hashing(keys, rng)

\* AdaptiveHasher: build_hasher, one write of the key, finish.
AdaptiveHasher_finish(self, key) ==
    IF self.inner.tag = "Some"
    THEN SipHasher13(self.inner.val, load_u64_le(key))
    ELSE mix(load_u64_le(key))

(***************************************************************************)
(* Safe hashes and the raw table.                                          *)
(***************************************************************************)
\* SafeHash::new that takes the hash as the hasher gives it.
SafeHash_new_raw(h) == h

\* SafeHash::new: the hash with its top bit set.
SafeHash_new(h) == [h EXCEPT ![8] = IF h[8] < 128 THEN h[8] + 128 ELSE h[8]]

\* The hash-builder states a map can be in.
BuilderStates ==
    {[inner |-> [tag |-> "None"]]}
        \cup {[inner |-> [tag |-> "Some", val |-> s]] : s \in Secrets}

\* The safe hash of every key under every state, computed once.
HashMemo ==
    [p \in BuilderStates \X Keys |-> SafeHash_new(AdaptiveHasher_finish(p[1], p[2]))]

\* HashMap::make_hash
make_hash(hash_builder, key) == HashMemo[<<hash_builder, key>>]


\* RawTable::new(capacity): every hash zeroed, keys and values not initialised.
EmptyBucket == [hash |-> WordZero]

RawTable_new(capacity) ==
    [capacity |-> capacity, size |-> 0,
     buckets |-> [i \in 1..capacity |-> EmptyBucket]]

\* The bucket at index i (0-based) of a table.
BucketAt(buckets, i) == buckets[i + 1]

\* A bucket is full iff its hash is not zero.
IsFull(bucket) == bucket.hash # WordZero

\* FullBucket::displacement, as copied into VacantEntryState::displacement:
\* index.wrapping_sub(hash as usize) & (capacity - 1).
Displacement(index, hash, capacity) ==
    ((index + capacity) - WordLow(hash, capacity)) % capacity

\* EmptyBucket::put: writes the three slots, size increments.
put(table, index, hash, key, value) ==
    [table EXCEPT !.buckets[index + 1] = [hash |-> hash, key |-> key, val |-> value],
                  !.size = @ + 1]

(***************************************************************************)
(* Search, Robin Hood insertion and removal.                               *)
(***************************************************************************)
TableIsEmpty == [tag |-> "TableIsEmpty"]
Occupied(index) == [tag |-> "Occupied", index |-> index]
NoElem(index) == [tag |-> "NoElem", index |-> index]
NeqElem(index, ib) == [tag |-> "NeqElem", index |-> index, ib |-> ib]
Vacant(hash, elem) == [tag |-> "Vacant", hash |-> hash, elem |-> elem]

\* The probe of search_hashed is still going on.
Continue == [tag |-> "Continue"]

\* The probe loop of search_hashed stealing at an equal displacement too.
ProbeBucket_steals_ties(b, i, capacity, hash, key, p) ==
    IF ~IsFull(b) THEN Vacant(hash, NoElem(i))
    ELSE IF Displacement(i, b.hash, capacity) <= p THEN Vacant(hash, NeqElem(i, p))
    ELSE IF b.hash = hash /\ b.key = key THEN Occupied(i)
    ELSE Continue

\* What the probe loop of search_hashed does with bucket i, holding b, at
\* probe count p.
ProbeBucket(b, i, capacity, hash, key, p) ==
    IF ~IsFull(b) THEN Vacant(hash, NoElem(i))
    ELSE IF Displacement(i, b.hash, capacity) < p THEN Vacant(hash, NeqElem(i, p))
    ELSE IF b.hash = hash /\ b.key = key THEN Occupied(i)
    ELSE Continue

\* One turn of the probe loop of search_hashed: probe count p from bucket
\* start.
ProbeAt(buckets, capacity, hash, key, start, p) ==
    ProbeBucket(BucketAt(buckets, (start + p) % capacity), (start + p) % capacity,
                capacity, hash, key, p)

RECURSIVE Probe(_, _, _, _, _, _, _)
\* The turns lo..hi of the probe loop, in order, up to the one that returns.
Probe(buckets, capacity, hash, key, start, lo, hi) ==
    IF lo = hi THEN ProbeAt(buckets, capacity, hash, key, start, lo)
    ELSE LET Rest(r) ==
                 IF r.tag # "Continue" THEN r
                 ELSE Probe(buckets, capacity, hash, key, start, (lo + hi) \div 2 + 1, hi)
         IN  Rest(Probe(buckets, capacity, hash, key, start, lo, (lo + hi) \div 2))

\* search_hashed(table, hash, is_match)
search_hashed(table, hash, key) ==
    IF table.capacity = 0 THEN TableIsEmpty
    ELSE Probe(table.buckets, table.capacity, hash, key,
               WordLow(hash, table.capacity), 0, table.capacity - 1)

\* One turn of the cascade of robin_hood at bucket i: the carried triple
\* c.cur, which would have displacement c.p there, takes an empty bucket and
\* is done, steals the bucket of a triple with a smaller displacement and
\* carries that one on, or moves on.
CarryAt(c, capacity, i) ==
    LET b == BucketAt(c.buckets, i)
        d == Displacement(i, b.hash, capacity)
    IN  IF ~IsFull(b)
        THEN [c EXCEPT !.buckets[i + 1] = c.cur, !.done = TRUE]
        ELSE IF d < c.p
             THEN [c EXCEPT !.buckets[i + 1] = c.cur, !.cur = b, !.p = d + 1]
             ELSE [c EXCEPT !.p = @ + 1]

RECURSIVE Carry(_, _, _, _, _)
\* The turns lo..hi of the cascade from bucket start, in order, up to the
\* one that is done.
Carry(c, capacity, start, lo, hi) ==
    IF c.done THEN c
    ELSE IF lo = hi THEN CarryAt(c, capacity, (start + lo) % capacity)
    ELSE Carry(Carry(c, capacity, start, lo, (lo + hi) \div 2),
               capacity, start, (lo + hi) \div 2 + 1, hi)

\* robin_hood(bucket, ib, hash, key, value): the new triple takes bucket
\* index and the triple that was there is carried forward; size grows by one.
robin_hood(table, index, ib, hash, key, value) ==
    LET old == BucketAt(table.buckets, index)
        d == Displacement(index, old.hash, table.capacity)
        new == [hash |-> hash, key |-> key, val |-> value]
    IN  [table EXCEPT
            !.buckets = Carry([buckets |-> [table.buckets EXCEPT ![index + 1] = new],
                               cur |-> old, p |-> d + 1, done |-> FALSE],
                              table.capacity, index + 1, 0, table.capacity - 1).buckets,
            !.size = @ + 1]

\* The backward shift of pop_internal moving a triple that is at home too.
ShiftBackAt_past_home(s, capacity) ==
    LET k == (s.gap + 1) % capacity
        b == BucketAt(s.buckets, k)
    IN  IF IsFull(b)
        THEN [s EXCEPT !.buckets[s.gap + 1] = b, !.buckets[k + 1] = EmptyBucket,
                       !.gap = k]
        ELSE [s EXCEPT !.done = TRUE]

\* One turn of the backward shift of pop_internal: the triple behind the gap
\* moves into it unless it is at home or the bucket is empty.
ShiftBackAt(s, capacity) ==
    LET k == (s.gap + 1) % capacity
        b == BucketAt(s.buckets, k)
    IN  IF IsFull(b) /\ Displacement(k, b.hash, capacity) > 0
        THEN [s EXCEPT !.buckets[s.gap + 1] = b, !.buckets[k + 1] = EmptyBucket,
                       !.gap = k]
        ELSE [s EXCEPT !.done = TRUE]

RECURSIVE ShiftBack(_, _, _, _)
\* The turns lo..hi of the backward shift, in order, up to the one that stops.
ShiftBack(s, capacity, lo, hi) ==
    IF s.done THEN s
    ELSE IF lo = hi THEN ShiftBackAt(s, capacity)
    ELSE ShiftBack(ShiftBack(s, capacity, lo, (lo + hi) \div 2),
                   capacity, (lo + hi) \div 2 + 1, hi)

\* pop_internal(elem): takes the triple out, shifts the followers back.
pop_internal(table, index) ==
    LET b == BucketAt(table.buckets, index)
    IN  [table |-> [table EXCEPT
                      !.buckets = ShiftBack([buckets |-> [table.buckets EXCEPT
                                                             ![index + 1] = EmptyBucket],
                                             gap |-> index, done |-> FALSE],
                                            table.capacity, 1, table.capacity).buckets,
                      !.size = @ - 1],
         key |-> b.key, val |-> b.val]

(***************************************************************************)
(* entry.rs: the occupied and vacant views.                                *)
(***************************************************************************)
\* OccupiedEntry::get
OccupiedEntry_get(table, index) == BucketAt(table.buckets, index).val

\* OccupiedEntry::insert without the swap: the value passed in is returned.
OccupiedEntry_insert_no_swap(table, index, value) ==
    [table |-> [table EXCEPT !.buckets[index + 1].val = value], ret |-> value]

\* OccupiedEntry::insert: swaps the value in, returns the old value.
OccupiedEntry_insert(table, index, value) ==
    [table |-> [table EXCEPT !.buckets[index + 1].val = value],
     ret |-> BucketAt(table.buckets, index).val]

\* OccupiedEntry::remove that reads the value and leaves the entry in place.
OccupiedEntry_remove_peek(table, index) ==
    [table |-> table, ret |-> BucketAt(table.buckets, index).val]

\* OccupiedEntry::remove that takes the triple out and shifts nothing back.
OccupiedEntry_remove_take(table, index) ==
    [table |-> [table EXCEPT !.buckets[index + 1] = EmptyBucket, !.size = @ - 1],
     ret |-> BucketAt(table.buckets, index).val]

\* OccupiedEntry::remove
OccupiedEntry_remove(table, index) ==
    LET Taken(popped) == [table |-> popped.table, ret |-> popped.val]
    IN  Taken(pop_internal(table, index))

\* VacantEntry::insert that puts the triple into the bucket found, full or not.
VacantEntry_insert_put(table, elem, hash, key, value) ==
    put(table, elem.index, hash, key, value)

\* VacantEntry::insert
VacantEntry_insert(table, elem, hash, key, value) ==
    IF elem.tag = "NeqElem"
    THEN robin_hood(table, elem.index, elem.ib, hash, key, value)
    ELSE put(table, elem.index, hash, key, value)

\* VacantEntryState::displacement without the mask of the capacity: the
\* low 16 bits of the difference.
VacantEntryState_displacement_unmasked(elem, hash, table_capacity) ==
    WordLow(WordSub(WordOf(elem.index), hash), 65536)

\* VacantEntryState::displacement:
\* index.wrapping_sub(hash.inspect() as usize) & (table_capacity - 1)
VacantEntryState_displacement(elem, hash, table_capacity) ==
    WordLow(WordSub(WordOf(elem.index), hash), table_capacity)

\* from_internal that takes a vacant entry for no entry.
from_internal_occupied_only(internal, key) ==
    IF internal.tag = "Occupied" THEN Some([view |-> internal, key |-> key]) ELSE None

\* from_internal(internal, key): the public view of an internal entry, none
\* for TableIsEmpty.
from_internal(internal, key) ==
    IF internal.tag = "TableIsEmpty" THEN None
    ELSE Some([view |-> internal, key |-> key])

\* Entry::or_insert(default): the table afterwards.
Entry_or_insert(table, entry, default) ==
    IF entry.view.tag = "Occupied" THEN table
    ELSE VacantEntry_insert(table, entry.view.elem, entry.view.hash, entry.key, default)

(***************************************************************************)
(* The map: hash-builder, table and the thread's KEYS travel together as   *)
(* m.  m.fault is "ok", "oom" when an allocation failed and the operation  *)
(* panicked, or "bound" when the table asked for is beyond MaxCapacity;    *)
(* m.allocated tells whether the operation has allocated a new table.      *)
(***************************************************************************)
\* The least capacity of a table that holds entries.
INITIAL_CAPACITY == 32

\* Beyond this displacement, we switch to safe hashing or grow the table.
DISPLACEMENT_THRESHOLD == 128
FORWARD_SHIFT_THRESHOLD == 512
\* LOAD_FACTOR_THRESHOLD: f32 = 0.2, as the fraction 1 / 5.  Sizes and
\* capacities below 2^24 are exact in f32 and a power of two is no multiple
\* of 5, so size as f32 / capacity as f32 >= 0.2 iff 5 * size >= capacity.
LOAD_FACTOR_THRESHOLD_INV == 5

\* safeguard_forward_shifted(bucket): end_index is the slot where the last
\* displaced bucket landed, start_index the slot of the inserted key.  The
\* test is end_index - start_index > FORWARD_SHIFT_THRESHOLD on usize: with
\* end_index < start_index the subtraction panics in a build with overflow
\* checks and wraps modulo 2^64 in a build without.
safeguard_forward_shifted(start_index, end_index, overflow_checks) ==
    IF overflow_checks /\ end_index < start_index
    THEN [panicked |-> TRUE, flag |-> FALSE]
    ELSE [panicked |-> FALSE,
          flag |-> WordGreater(WordSub(WordOf(end_index), WordOf(start_index)),
                               WordOf(FORWARD_SHIFT_THRESHOLD))]

\* The outcome of allocating a table of the given capacity; a table of
\* capacity 0 holds no allocation.
Allocate(capacity, oom) ==
    IF capacity > MaxCapacity THEN "bound"
    ELSE IF oom /\ capacity > 0 THEN "oom"
    ELSE "ok"

\* old_table.into_iter(): the full buckets in bucket order.
FullEntries(table) == SelectSeq(table.buckets, IsFull)

\* insert_hashed_nocheck: search, then replace the value or insert.
insert_hashed_nocheck(table, hash, k, v) ==
    LET Place(entry) ==
            IF entry.tag = "Occupied"
            THEN OccupiedEntry_insert(table, entry.index, v).table
            ELSE VacantEntry_insert(table, entry.elem, hash, k, v)
    IN  Place(search_hashed(table, hash, k))

RECURSIVE Reinsert(_, _, _, _, _)
\* for (_, k, v) in old_table.into_iter() { insert_hashed_nocheck(make_hash(&k), k, v) }
\* for the entries lo..hi of the old table, in order.  (The test of
\* table.size, which is never negative, has TLC build the table of the
\* entries before lo first.)
Reinsert(hash_builder, table, entries, lo, hi) ==
    IF lo > hi \/ table.size < 0 THEN table
    ELSE IF lo = hi
    THEN insert_hashed_nocheck(table, make_hash(hash_builder, entries[lo].key),
                               entries[lo].key, entries[lo].val)
    ELSE Reinsert(hash_builder,
                  Reinsert(hash_builder, table, entries, lo, (lo + hi) \div 2),
                  entries, (lo + hi) \div 2 + 1, hi)

\* The new table with every entry of the old one inserted.
Rehashed(hash_builder, old_table, capacity) ==
    LET Filled(entries) ==
            Reinsert(hash_builder, RawTable_new(capacity), entries, 1, Len(entries))
    IN  Filled(FullEntries(old_table))

\* HashMap::resize(new_capacity): a new table, every key hashed afresh.
resize(m, new_capacity, oom) ==
    LET Moved(a) ==
            IF a # "ok" THEN [m EXCEPT !.fault = a]
            ELSE [m EXCEPT !.table = Rehashed(m.hash_builder, m.table, new_capacity),
                           !.allocated = TRUE]
    IN  Moved(Allocate(new_capacity, oom))

\* A usable part that is the whole capacity.
usable_capacity_whole(capacity) == capacity
\* A least capacity that leaves the load factor out.
min_capacity_exact(n) == n

\* The usable part of a capacity: 0.909 of it.
usable_capacity(capacity) == (capacity * 909) \div 1000
\* The least capacity whose usable part holds n entries.
min_capacity(n) == (n * 1000 + 908) \div 909

RECURSIVE PowerOfTwoFrom(_, _)
PowerOfTwoFrom(p, n) == IF p >= n THEN p ELSE PowerOfTwoFrom(2 * p, n)
next_power_of_two(n) == PowerOfTwoFrom(1, n)

Max(a, b) == IF a >= b THEN a ELSE b

\* HashMap::reserve(additional)
reserve(m, additional, oom) ==
    IF m.table.size + additional > usable_capacity(m.table.capacity)
    THEN resize(m, Max(next_power_of_two(min_capacity(m.table.size + additional)),
                       INITIAL_CAPACITY), oom)
    ELSE m

(***************************************************************************)
(* adaptive_map.rs: the safeguard.                                         *)
(***************************************************************************)
\* rebuild_table that leaves the old table, hashed as it was, in place.
rebuild_table_kept(m, oom) == m

\* rebuild_table without the replace: the entries are inserted, hashed
\* afresh, into the table they are in.
rebuild_table_onto(m, oom) ==
    LET Filled(entries) ==
            [m EXCEPT !.table = Reinsert(m.hash_builder, m.table, entries, 1, Len(entries)),
                      !.allocated = TRUE]
    IN  Filled(FullEntries(m.table))

\* rebuild_table(map): a new table of the same capacity, every key hashed
\* afresh with the map's hash-builder as it is now.
rebuild_table(m, oom) ==
    LET Rebuilt(a) ==
            IF a # "ok" THEN [m EXCEPT !.fault = a]
            ELSE [m EXCEPT !.table = Rehashed(m.hash_builder, m.table, m.table.capacity),
                           !.allocated = TRUE]
    IN  Rebuilt(Allocate(m.table.capacity, oom))

\* reduce_displacement without the test of the load factor: it always
\* switches and rebuilds.
reduce_displacement_switch(m, rng, oom) ==
    LET Switched(s) ==
            rebuild_table([m EXCEPT !.hash_builder = s.state, !.keys = s.keys], oom)
    IN  Switched(switch_to_safe_hashing(m.hash_builder, m.keys, rng))

\* Adapt to safe hashing, if desirable.
reduce_displacement(m, rng, oom) ==
    IF m.table.size * LOAD_FACTOR_THRESHOLD_INV >= m.table.capacity
    THEN resize(m, m.table.capacity * 2, oom)
    ELSE LET Switched(s) ==
                 rebuild_table([m EXCEPT !.hash_builder = s.state, !.keys = s.keys], oom)
         IN  Switched(switch_to_safe_hashing(m.hash_builder, m.keys, rng))

\* safeguard_vacant_entry that checks the entry of the search it makes after
\* the remediation too, and reduces the displacement once more.
safeguard_vacant_entry_again(m, elem, hash, key, rng, oom) ==
    IF VacantEntryState_displacement(elem, hash, m.table.capacity) > DISPLACEMENT_THRESHOLD
    THEN LET Reduced(m2) ==
                 IF m2.fault # "ok"
                 THEN [map |-> m2, entry |-> TableIsEmpty, tripped |-> TRUE]
                 ELSE [map |-> m2,
                       entry |-> search_hashed(m2.table, make_hash(m2.hash_builder, key), key),
                       tripped |-> TRUE]
             Again(r) ==
                 IF /\ r.map.fault = "ok" /\ r.entry.tag = "Vacant"
                    /\ VacantEntryState_displacement(r.entry.elem, r.entry.hash,
                                                     r.map.table.capacity)
                           > DISPLACEMENT_THRESHOLD
                 THEN Reduced(reduce_displacement(r.map, rng, oom))
                 ELSE r
         IN  Again(Reduced(reduce_displacement(m, rng, oom)))
    ELSE [map |-> m, entry |-> Vacant(hash, elem), tripped |-> FALSE]

\* safeguard_vacant_entry(elem, hash, key): the map after the check and the
\* entry to insert at.
safeguard_vacant_entry(m, elem, hash, key, rng, oom) ==
    IF VacantEntryState_displacement(elem, hash, m.table.capacity) > DISPLACEMENT_THRESHOLD
    THEN LET Reduced(m2) ==
                 IF m2.fault # "ok"
                 THEN [map |-> m2, entry |-> TableIsEmpty, tripped |-> TRUE]
                 ELSE [map |-> m2,
                       entry |-> search_hashed(m2.table, make_hash(m2.hash_builder, key), key),
                       tripped |-> TRUE]
         IN  Reduced(reduce_displacement(m, rng, oom))
    ELSE [map |-> m, entry |-> Vacant(hash, elem), tripped |-> FALSE]

\* impl SafeguardedSearch for HashMap<K, V, AdaptiveState> where K: OneshotHash
safeguarded_search_adaptive(m, key, hash, rng, oom) ==
    LET Checked(entry) ==
            IF entry.tag = "Vacant"
            THEN safeguard_vacant_entry(m, entry.elem, hash, key, rng, oom)
            ELSE [map |-> m, entry |-> entry, tripped |-> FALSE]
    IN  Checked(search_hashed(m.table, hash, key))

\* impl SafeguardedSearch for HashMap<K, V, S>: the default, no safeguard.
safeguarded_search_default(m, key, hash) ==
    [map |-> m, entry |-> search_hashed(m.table, hash, key), tripped |-> FALSE]

\* The specialisation the compiler picks for the key type.
safeguarded_search(oneshot_key, m, key, hash, rng, oom) ==
    IF oneshot_key THEN safeguarded_search_adaptive(m, key, hash, rng, oom)
    ELSE safeguarded_search_default(m, key, hash)

(***************************************************************************)
(* The map's operations.                                                   *)
(***************************************************************************)
\* HashMap::insert(k, v): the map afterwards and the value returned.
HashMap_insert(oneshot_key, m, k, v, rng, oom) ==
    LET Stored(found) ==
            IF found.map.fault # "ok"
            THEN [map |-> found.map, ret |-> None, tripped |-> TRUE]
            ELSE IF found.entry.tag = "Occupied"
            THEN [map |-> [found.map EXCEPT !.table =
                              OccupiedEntry_insert(found.map.table,
                                                   found.entry.index, v).table],
                  ret |-> Some(OccupiedEntry_insert(found.map.table,
                                                    found.entry.index, v).ret),
                  tripped |-> found.tripped]
            ELSE [map |-> [found.map EXCEPT !.table =
                              VacantEntry_insert(found.map.table, found.entry.elem,
                                                 found.entry.hash, k, v)],
                  ret |-> None, tripped |-> found.tripped]
        Reserved(m1) ==
            IF m1.fault # "ok" THEN [map |-> m1, ret |-> None, tripped |-> FALSE]
            ELSE Stored(safeguarded_search(oneshot_key, m1, k,
                                           make_hash(m1.hash_builder, k), rng, oom))
    IN  Reserved(reserve(m, 1, oom))

\* HashMap::entry(k): reserve(1), one search, the view of what it found;
\* expect("unreachable") panics on no view.
HashMap_entry(oneshot_key, m, k, rng, oom) ==
    LET Viewed(found) ==
            [map |-> found.map,
             entry |-> IF found.map.fault # "ok" THEN None
                       ELSE from_internal(found.entry, k),
             tripped |-> found.tripped]
        Reserved(m1) ==
            IF m1.fault # "ok" THEN [map |-> m1, entry |-> None, tripped |-> FALSE]
            ELSE Viewed(safeguarded_search(oneshot_key, m1, k,
                                           make_hash(m1.hash_builder, k), rng, oom))
    IN  Reserved(reserve(m, 1, oom))

\* HashMap::get(&k)
HashMap_get(m, k) ==
    LET Found(entry) ==
            IF entry.tag = "Occupied" THEN Some(OccupiedEntry_get(m.table, entry.index))
            ELSE None
    IN  Found(search_hashed(m.table, make_hash(m.hash_builder, k), k))

\* HashMap::remove(&k): the table afterwards and the value returned.
HashMap_remove(m, k) ==
    LET Taken(r) == [table |-> r.table, ret |-> Some(r.ret)]
        Found(entry) ==
            IF entry.tag = "Occupied"
            THEN Taken(OccupiedEntry_remove(m.table, entry.index))
            ELSE [table |-> m.table, ret |-> None]
    IN  Found(search_hashed(m.table, make_hash(m.hash_builder, k), k))

\* HashMap::len()
HashMap_len(m) == m.table.size

(***************************************************************************)
(* State.                                                                  *)
(***************************************************************************)
VARIABLES
    oneshot,        \* whether the key type K is OneshotHash
    hash_builder,   \* map.hash_builder: AdaptiveState
    table,          \* map.table: RawTable
    KEYS,           \* the thread-local KEYS of SipHashState::new
    values_iter,    \* how many keys of VALUES the insertion loop has taken
    ops,            \* how many calls were made besides the loop's insertions
    reserved,       \* how many insertions the last reserve still covers
    panicked,       \* an allocation failed and the operation panicked
    last,           \* the last call, its arguments and what it did
    other_state     \* the SipHashState of another map made on the thread, if any

vars ==
    <<oneshot, hash_builder, table, KEYS, values_iter, ops, reserved, panicked, last,
      other_state>>

\* The map as the operations take it.
Map ==
    [hash_builder |-> hash_builder, table |-> table, keys |-> KEYS,
     fault |-> "ok", allocated |-> FALSE]

\* The secrets the RNG may give to an operation: it is asked only while the
\* thread's KEYS are not drawn.
Rng == IF KEYS = KeysUninit THEN Secrets ELSE {[k0 |-> KEYS.k0, k1 |-> KEYS.k1]}

Call(op, key, val, ret, tripped, allocated) ==
    [op |-> op, key |-> key, val |-> val, ret |-> ret, tripped |-> tripped,
     allocated |-> allocated]

\* HashMap::new(): Default of the hash-builder for generic keys, fast
\* hashing for one-shot keys; no table yet.
HashMap_new(oneshot_key, keys, rng) ==
    IF oneshot_key THEN [state |-> new_for_fast_hashing, keys |-> keys]
    ELSE AdaptiveState_default(keys, rng)

Init ==
    /\ oneshot \in BOOLEAN
    /\ \E rng \in Secrets :
          LET Built(s) == hash_builder = s.state /\ KEYS = s.keys
          IN  Built(HashMap_new(oneshot, KeysUninit, rng))
    /\ table = RawTable_new(0)
    /\ values_iter = 0
    /\ ops = 0
    /\ reserved = 0
    /\ panicked = FALSE
    /\ last = Call("new", 0, 0, None, FALSE, FALSE)
    /\ other_state = None

\* The pair the RNG gives where it does not matter which.
RngFirst == IF KEYS = KeysUninit THEN FirstSecret ELSE [k0 |-> KEYS.k0, k1 |-> KEYS.k1]

\* What the RNG and the allocator may do in a call that goes as r0 when the
\* RNG gives RngFirst and no allocation fails: an allocation can fail only
\* in a call that allocates, and the RNG's pair tells only in a call that
\* draws the thread's KEYS.
Outcomes(r0) ==
    {p \in Rng \X BOOLEAN :
        /\ p[2] => r0.map.allocated
        /\ p[1] # RngFirst => r0.map.keys # KEYS}

\* The map after an insert call, and the record of the call.  A call that
\* allocates nothing is one step whether or not an allocation would fail,
\* and one that draws no secret is one step whatever the RNG would give.
DoInsert(k, v) ==
    LET Done(r, rng, oom) ==
            /\ r.map.fault # "bound"
            /\ oom => r.map.fault = "oom"
            /\ r.map.keys = KeysUninit => rng = FirstSecret
            /\ hash_builder' = r.map.hash_builder
            /\ table' = r.map.table
            /\ KEYS' = r.map.keys
            /\ panicked' = (r.map.fault = "oom")
            /\ reserved' = IF reserved > 0 /\ r.ret = None /\ r.map.fault = "ok"
                           THEN reserved - 1 ELSE reserved
            /\ last' = Call("insert", k, v, r.ret, r.tripped, r.map.allocated)
        Tried(call, r0) ==
            \/ Done(r0, RngFirst, FALSE)
            \/ \E p \in Outcomes(r0) \ {<<RngFirst, FALSE>>} :
                  Done(call[p], p[1], p[2])
        Calls(call) == Tried(call, call[<<RngFirst, FALSE>>])
    IN  Calls([p \in Rng \X BOOLEAN |->
                  HashMap_insert(oneshot, Map, k, v, p[1], p[2])])

\* for (i, &value) in values { map.insert(value, i) }: one turn of the loop.
\* The loop goes on until another call is made, and after a reserve for the
\* insertions the reserve covers.
InsertNext ==
    /\ ~panicked /\ oneshot /\ values_iter < NValues
    /\ ops = 0 \/ reserved > 0
    /\ DoInsert(VALUES[values_iter + 1], values_iter)
    /\ values_iter' = values_iter + 1
    /\ UNCHANGED <<oneshot, ops, other_state>>

Insert(k, v) ==
    /\ ~panicked /\ ops < MaxOps
    /\ DoInsert(k, v)
    /\ ops' = ops + 1
    /\ UNCHANGED <<oneshot, values_iter, other_state>>

Remove(k) ==
    /\ ~panicked /\ ops < MaxOps
    /\ LET Done(r) ==
               /\ table' = r.table
               /\ last' = Call("remove", k, 0, r.ret, FALSE, FALSE)
       IN  Done(HashMap_remove(Map, k))
    /\ ops' = ops + 1
    /\ UNCHANGED <<oneshot, hash_builder, KEYS, values_iter, reserved, panicked,
                   other_state>>

Reserve(n) ==
    /\ ~panicked /\ ops < MaxOps
    /\ \E oom \in BOOLEAN :
          LET Done(m) ==
                  /\ m.fault # "bound"
                  /\ oom => m.fault = "oom"
                  /\ table' = m.table
                  /\ panicked' = (m.fault = "oom")
                  /\ reserved' = IF m.fault = "ok" THEN n ELSE reserved
                  /\ last' = Call("reserve", 0, n, None, FALSE, m.allocated)
          IN  Done(reserve(Map, n, oom))
    /\ ops' = ops + 1
    /\ UNCHANGED <<oneshot, hash_builder, KEYS, values_iter, other_state>>

\* map.entry(k).or_insert(v).  The call is recorded with the view it got:
\* "Occupied" or "Vacant", "AllocationError" when the allocation failed, and
\* "TableIsEmpty" when entry found no view to give and panicked.
EntryOrInsert(k, v) ==
    /\ ~panicked /\ ops < MaxOps
    /\ LET Done(r, rng, oom) ==
                  /\ r.map.fault # "bound"
                  /\ oom => r.map.fault = "oom"
                  /\ r.map.keys = KeysUninit => rng = FirstSecret
                  /\ hash_builder' = r.map.hash_builder
                  /\ KEYS' = r.map.keys
                  /\ table' = IF r.entry = None THEN r.map.table
                               ELSE Entry_or_insert(r.map.table, r.entry.val, v)
                  /\ panicked' = (r.entry = None)
                  /\ reserved' = IF reserved > 0 /\ r.entry # None
                                     /\ r.entry.val.view.tag = "Vacant"
                                  THEN reserved - 1 ELSE reserved
                  /\ last' = Call("entry", k, v,
                                  IF r.map.fault # "ok" THEN "AllocationError"
                                  ELSE IF r.entry = None THEN "TableIsEmpty"
                                  ELSE r.entry.val.view.tag,
                                  r.tripped, r.map.allocated)
           Tried(call, r0) ==
               \/ Done(r0, RngFirst, FALSE)
               \/ \E p \in Outcomes(r0) \ {<<RngFirst, FALSE>>} :
                     Done(call[p], p[1], p[2])
           Calls(call) == Tried(call, call[<<RngFirst, FALSE>>])
       IN  Calls([p \in Rng \X BOOLEAN |->
                     HashMap_entry(oneshot, Map, k, p[1], p[2])])
    /\ ops' = ops + 1
    /\ UNCHANGED <<oneshot, values_iter, other_state>>

\* SipHashState::new() for another map of the thread: the state is built
\* from the thread's KEYS, which the call draws if no one has yet.
NewSipHashState ==
    /\ ~panicked /\ ops < MaxOps
    /\ \E rng \in Rng :
          LET Built(s) ==
                  /\ other_state' = Some(s.state)
                  /\ KEYS' = s.keys
          IN  Built(SipHashState_new(KEYS, rng))
    /\ last' = Call("SipHashState::new", 0, 0, None, FALSE, FALSE)
    /\ ops' = ops + 1
    /\ UNCHANGED <<oneshot, hash_builder, table, values_iter, reserved, panicked>>

Next ==
    \/ InsertNext
    \/ \E k \in FreeKeys, v \in Vals : Insert(k, v)
    \/ \E k \in FreeKeys : Remove(k)
    \/ \E n \in ReserveArgs : Reserve(n)
    \/ \E k \in FreeKeys, v \in Vals : EntryOrInsert(k, v)
    \/ NewSipHashState

Spec == Init /\ [][Next]_vars

(***************************************************************************)
(* What the map is claimed to do.                                          *)
(***************************************************************************)
\* The map after the step.
MapNext ==
    [hash_builder |-> hash_builder', table |-> table', keys |-> KEYS',
     fault |-> "ok", allocated |-> FALSE]

\* The keys a lookup finds in the map.
Present(m) == {k \in Keys : HashMap_get(m, k) # None}

\* How many entries of the table hold key k.
EntriesOf(t, k) == Len(SelectSeq(t.buckets, LAMBDA b : IsFull(b) /\ b.key = k))

\* The state is one of the insertion loop alone: the first values_iter keys
\* of VALUES were inserted, each once, and nothing else was called.
InLoop == oneshot /\ ops = 0 /\ ~panicked

\* C1: after the distinct keys of VALUES were inserted one by one, through
\* ordinary growth, capacity doubling and the switch to safe hashing with its
\* rebuild, every inserted key is found with the value inserted for it, and
\* the table holds exactly one entry for each: none lost, none duplicated.
C1_InsertionsKept ==
    InLoop =>
        /\ \A i \in 1..values_iter : HashMap_get(Map, VALUES[i]) = Some(i - 1)
        /\ HashMap_len(Map) = values_iter
        /\ Len(FullEntries(table)) = values_iter

\* The loop has gone through the switch to safe hashing and its rebuild.
C1_Witness ==
    /\ InLoop /\ last.tripped /\ last.allocated
    /\ uses_safe_hashing(hash_builder)
    /\ table.size > DISPLACEMENT_THRESHOLD

\* C2: while fewer than DISPLACEMENT_THRESHOLD of the colliding keys have
\* been inserted the map hashes fast, and 8 insertions later it hashes
\* safely.
C2_SafeAfterEightMore ==
    InLoop =>
        /\ values_iter < DISPLACEMENT_THRESHOLD => ~uses_safe_hashing(hash_builder)
        /\ values_iter >= DISPLACEMENT_THRESHOLD + 8 => uses_safe_hashing(hash_builder)

\* C3: no step takes the hash-builder from safe hashing back to fast hashing.
C3_ModeMonotonic ==
    [][uses_safe_hashing(hash_builder) => uses_safe_hashing(hash_builder')]_vars

\* A call was made on a one-shot keyed map after it had switched.
C3_Witness ==
    /\ oneshot /\ uses_safe_hashing(hash_builder)
    /\ last.op \in {"insert", "remove"} /\ ~last.tripped

RoundTrip(before, after, k, v) ==
    /\ HashMap_get(after, k) = Some(v)
    /\ LET Removed(r) ==
               /\ r.ret = Some(v)
               /\ HashMap_get([after EXCEPT !.table = r.table], k) = None
               /\ \A j \in Keys \ {k} :
                     HashMap_get([after EXCEPT !.table = r.table], j)
                         = HashMap_get(before, j)
       IN  Removed(HashMap_remove(after, k))

\* C5: every insert that returns makes the round trip.
C5_RoundTrip ==
    [][(last'.op = "insert" /\ ~panicked')
          => RoundTrip(Map, MapNext, last'.key, last'.val)]_vars

\* An insert of a new key went through a remediation into a table that
\* holds other keys.
C5_Witness ==
    /\ last.op = "insert" /\ ~panicked /\ last.ret = None /\ last.tripped
    /\ table.size > 1

\* C6: after every call that returns, len() is the number of keys present;
\* an insert adds 1 exactly when the key was absent, a remove takes 1 away
\* exactly when the key was present.
C6_SizeAccounting ==
    [][~panicked' =>
          /\ HashMap_len(MapNext) = Cardinality(Present(MapNext))
          /\ last'.op = "insert" =>
                HashMap_len(MapNext) = HashMap_len(Map)
                    + (IF HashMap_get(Map, last'.key) = None THEN 1 ELSE 0)
          /\ last'.op = "remove" =>
                HashMap_len(MapNext) = HashMap_len(Map)
                    - (IF HashMap_get(Map, last'.key) = None THEN 0 ELSE 1)]_vars

\* A present key was removed from a map that holds other keys.
C6_Witness ==
    /\ last.op = "remove" /\ last.ret # None /\ table.size > 0

\* C7: insert(k, v) returns what get(k) gave before it, the map then holds v
\* for k, in one entry.
C7_InsertReturnsPrevious ==
    [][(last'.op = "insert" /\ ~panicked') =>
          /\ last'.ret = HashMap_get(Map, last'.key)
          /\ HashMap_get(MapNext, last'.key) = Some(last'.val)
          /\ EntriesOf(table', last'.key) = 1]_vars

\* An insert replaced the value of a key that was present.
C7_Witness == last.op = "insert" /\ last.ret # None /\ ~panicked

\* C8: size <= capacity, and size <= 0.909 * capacity.
C8_LoadBound ==
    /\ table.size <= table.capacity
    /\ table.size * 1000 <= table.capacity * 909

\* A remediation rebuilt the table at the same capacity.
C8_Witness ==
    /\ last.tripped /\ last.allocated /\ uses_safe_hashing(hash_builder)
    /\ table.size > 0

\* C9, as stated: an insertion of a new key that a reserve covers does not
\* allocate a table.
C9_NoReallocation ==
    [][(last'.op = "insert" /\ reserved > 0 /\ last'.ret = None)
          => (~last'.allocated /\ ~panicked')]_vars

\* C9, amended: an insertion of a new key that a reserve covers does not
\* allocate a table and leaves the capacity as it is, unless the
\* displacement safeguard fires in it.
C9_NoReallocationUnlessTripped ==
    [][(last'.op = "insert" /\ reserved > 0 /\ last'.ret = None /\ ~last'.tripped)
          => (~last'.allocated /\ ~panicked' /\ table'.capacity = table.capacity)]_vars

\* The first insertion of a new key after reserve(MaxReserve), without a trip.
C9_Witness ==
    /\ last.op = "insert" /\ last.ret = None /\ ~last.tripped
    /\ reserved = MaxReserve - 1

\* C10: when an allocation fails, the map is left as it was before the call:
\* the hash-builder has not switched and the table is the same.
C10_SwitchOnlyIfRebuilt ==
    [][panicked' => (hash_builder' = hash_builder /\ table' = table)]_vars

\* C11: a safe state made on its own does not hold the key pair of another:
\* the state of the map, made with the map or by its switch to safe hashing,
\* and the state of another map of the thread differ in their keys.
C11_OwnKeyPair ==
    (other_state # None /\ uses_safe_hashing(hash_builder))
        => other_state.val # hash_builder.inner.val

\* C12: entry(k) gives an occupied or a vacant view and never the outcome of
\* the table being empty, on a new map of capacity 0 too, where the table is
\* allocated first; a vacant view's insert stores (k, v) as one more entry,
\* an occupied view leaves the map as it is.
C12_EntryNeverTableIsEmpty ==
    [][last'.op = "entry" =>
          /\ last'.ret \in {"Occupied", "Vacant", "AllocationError"}
          /\ last'.ret = "Vacant" =>
                /\ HashMap_get(Map, last'.key) = None
                /\ HashMap_get(MapNext, last'.key) = Some(last'.val)
                /\ HashMap_len(MapNext) = HashMap_len(Map) + 1
                /\ table'.capacity > 0
          /\ last'.ret = "Occupied" =>
                /\ HashMap_get(Map, last'.key) # None
                /\ HashMap_get(MapNext, last'.key) = HashMap_get(Map, last'.key)
                /\ HashMap_len(MapNext) = HashMap_len(Map)]_vars

\* entry on a new map, of capacity 0, gave a vacant view and its insert
\* stored the first entry.
C12_Witness ==
    /\ last.op = "entry" /\ last.ret = "Vacant" /\ last.allocated
    /\ values_iter = 0 /\ table.size = 1

\* The keys of a sequence of entries are all different.
DistinctKeys(entries) ==
    Cardinality({entries[i].key : i \in 1..Len(entries)}) = Len(entries)

\* C13: in every state, after any insertions, removals, growths and
\* rebuilds, no two full buckets hold the same key.
C13_NoDuplicateKeys == DistinctKeys(FullEntries(table))

\* A key that is in the map was inserted again after the map had switched to
\* safe hashing and rebuilt its table.
C13_Witness ==
    /\ oneshot /\ uses_safe_hashing(hash_builder) /\ ~panicked
    /\ last.op = "insert" /\ last.key \in FreeKeys /\ table.size > DISPLACEMENT_THRESHOLD
    /\ ops > 0

\* The displacement of the bucket at index i of table t, full or not.
DisplacementAt(t, i) == Displacement(i, BucketAt(t.buckets, i).hash, t.capacity)

\* The index before i, round the table.
PrevIndex(t, i) == (i + t.capacity - 1) % t.capacity

\* The buckets from the ideal index of the full bucket at i up to i are full:
\* the bucket is on the probe chain that starts at its ideal index.
OnChain(t, i) ==
    \A p \in 1..DisplacementAt(t, i) :
        IsFull(BucketAt(t.buckets, (i + t.capacity - p) % t.capacity))

\* The full buckets at i - 1 and i are consecutive buckets of a probe chain,
\* and the displacement falls from the one to the other.
Falls(t, i) ==
    /\ IsFull(BucketAt(t.buckets, i)) /\ IsFull(BucketAt(t.buckets, PrevIndex(t, i)))
    /\ OnChain(t, PrevIndex(t, i))
    /\ DisplacementAt(t, i) < DisplacementAt(t, PrevIndex(t, i))

\* C14, as stated: along the probe chain from an ideal index the
\* displacements of the full buckets do not decrease up to the first empty
\* bucket: displacement(i) >= displacement(i - 1) for consecutive full buckets.
C14_DisplacementsNonDecreasing ==
    \A i \in 0..(table.capacity - 1) : ~Falls(table, i)

\* C14, amended: after every mutation, a full bucket that is not at its
\* ideal index follows a full bucket, and its displacement is at most one
\* more than that bucket's: displacement(i) <= displacement(i - 1) + 1, so
\* the bucket at probe count p of the chain to a key has displacement >= p.
C14_RobinHood ==
    \A i \in 0..(table.capacity - 1) :
        (IsFull(BucketAt(table.buckets, i)) /\ DisplacementAt(table, i) > 0) =>
            /\ IsFull(BucketAt(table.buckets, PrevIndex(table, i)))
            /\ DisplacementAt(table, i) <= DisplacementAt(table, PrevIndex(table, i)) + 1

\* A removal has shifted entries back, in a table where the displacement
\* falls between two buckets of a chain.
C14_Witness ==
    /\ last.op = "remove" /\ last.ret # None /\ table.size > 2
    /\ \E i \in 0..(table.capacity - 1) : Falls(table, i)

\* The table as the search of an insert or entry call finds it: after the
\* call's reserve(1).
TableAtSearch == reserve(Map, 1, FALSE).table

\* The load factor of a table is below LOAD_FACTOR_THRESHOLD.
LowLoad(t) == t.size * LOAD_FACTOR_THRESHOLD_INV < t.capacity

\* The step is a call that ran the remediation and returned.
Remediated == last'.op \in {"insert", "entry"} /\ last'.tripped /\ ~panicked'

\* C15: a remediation on a map that hashes safely already, at a load below
\* LOAD_FACTOR_THRESHOLD, doubles the capacity.
C15_SafeLowLoadDoubles ==
    [][(Remediated /\ uses_safe_hashing(hash_builder) /\ LowLoad(TableAtSearch))
          => table'.capacity = 2 * TableAtSearch.capacity]_vars

HashedUnder(builder, entries) ==
    \A i \in 1..Len(entries) : entries[i].hash = make_hash(builder, entries[i].key)

\* C17: a switch from fast to safe hashing leaves the capacity as it was,
\* and after every call every stored hash is the safe hash of its key under
\* the hash-builder as it is then: none is left from the fast state.
C17_RebuiltUnderCurrentState ==
    [][/\ (~uses_safe_hashing(hash_builder) /\ uses_safe_hashing(hash_builder'))
             => table'.capacity = TableAtSearch.capacity
       /\ HashedUnder(hash_builder', FullEntries(table'))]_vars

\* What safeguarded_search gives the call of the step, the RNG giving rng:
\* the map after the safeguard and the entry for the key of the call.
SearchOfCall(rng) ==
    safeguarded_search(oneshot, [Map EXCEPT !.table = TableAtSearch], last'.key,
                       make_hash(hash_builder, last'.key), rng, FALSE)

\* C18: the remediation runs when the new key has been placed: the table it
\* rebuilds holds the key, and the search made after it finds the key there.
C18_RemediationAfterPlacement ==
    [][Remediated =>
          \A rng \in Rng :
              LET Placed(r) == r.tripped => r.entry.tag = "Occupied"
              IN  Placed(SearchOfCall(rng))]_vars

\* C19: a call runs at most one step of remediation: the capacity is doubled
\* once with the hash-builder left as it is, or the table is rebuilt once at
\* its capacity; the insertions of the rebuild and the search after it do
\* not run the safeguard again, whatever displacement that search finds.
C19_OneRemediationStep ==
    [][Remediated =>
          \/ /\ table'.capacity = 2 * TableAtSearch.capacity
             /\ hash_builder' = hash_builder
          \/ table'.capacity = TableAtSearch.capacity]_vars

\* The key a call has inserted after its remediation lies at a displacement
\* above the threshold still, and the call has returned.
C19_Witness ==
    /\ last.op = "insert" /\ last.tripped /\ ~panicked
    /\ LET Beyond(entry) ==
               /\ entry.tag = "Occupied"
               /\ DisplacementAt(table, entry.index) > DISPLACEMENT_THRESHOLD
       IN  Beyond(search_hashed(table, make_hash(hash_builder, last.key), last.key))

\* The bucket holds a key and a value.
HoldsEntry(bucket) == "key" \in DOMAIN bucket

\* The top bit of a hash is set.
TopBitSet(hash) == hash[8] >= 128

\* C20: in every state a bucket holds an entry exactly when its stored hash
\* is not zero, and the stored hash of every entry has its top bit set, under
\* fast hashing, under safe hashing and after a rebuild.
C20_SafeHashMarker ==
    \A i \in 1..table.capacity :
        /\ HoldsEntry(table.buckets[i]) <=> table.buckets[i].hash # WordZero
        /\ HoldsEntry(table.buckets[i]) => TopBitSet(table.buckets[i].hash)

\* The table was rebuilt under safe hashing and holds a key whose hash, as
\* the hasher gives it, has its top bit clear.
C20_Witness ==
    /\ oneshot /\ uses_safe_hashing(hash_builder) /\ last.tripped /\ ~panicked
    /\ table.size > DISPLACEMENT_THRESHOLD
    /\ \E i \in 1..table.capacity :
          /\ HoldsEntry(table.buckets[i])
          /\ ~TopBitSet(AdaptiveHasher_finish(hash_builder, table.buckets[i].key))

\* The keys whose search is looked at in a state: the key of the last call,
\* the key the insertion loop inserts next and the key of the calls outside
\* the loop.
ProbedKeys ==
    ({last.key} \cap Keys) \cup FreeKeys
        \cup {VALUES[i] : i \in {values_iter + 1} \cap (1..NValues)}

\* search(hash, key) as a call on the map makes it for key k.
SearchOf(k) == search_hashed(table, make_hash(hash_builder, k), k)

\* The bucket at probe count p of the chain of hash h.
ChainIndex(t, h, p) == (WordLow(h, t.capacity) + p) % t.capacity

\* The probe for hash h cannot go past probe count p: the bucket there is
\* empty, or full with a displacement strictly less than p.
StopsAt(t, h, p) ==
    \/ ~IsFull(BucketAt(t.buckets, ChainIndex(t, h, p)))
    \/ DisplacementAt(t, ChainIndex(t, h, p)) < p

\* The first probe count at which the probe for hash h cannot go on.
FirstStop(t, h) ==
    CHOOSE p \in 0..(t.capacity - 1) :
        StopsAt(t, h, p) /\ \A q \in 0..(p - 1) : ~StopsAt(t, h, q)

\* The full bucket i of the table holds key k.
HoldsKey(t, i, k) == IsFull(BucketAt(t.buckets, i)) /\ BucketAt(t.buckets, i).key = k

\* C21: on the table of a map that can be called, search(hash, key) returns
\* TableIsEmpty exactly when the capacity is 0; it returns Occupied{i}
\* exactly when some full bucket holds an equal key, i being that bucket;
\* otherwise it returns Vacant with the hash searched, at the first bucket of
\* the probe chain that is empty (NoElem) or full with a displacement
\* strictly less than the probe count (NeqElem, with that probe count).
C21_SearchResult ==
    ~panicked =>
        \A k \in ProbedKeys :
            LET Is(r, h) ==
                    /\ (r.tag = "TableIsEmpty") <=> (table.capacity = 0)
                    /\ (r.tag = "Occupied") <=>
                           (\E i \in 0..(table.capacity - 1) : HoldsKey(table, i, k))
                    /\ r.tag = "Occupied" => HoldsKey(table, r.index, k)
                    /\ r.tag \notin {"TableIsEmpty", "Occupied"} =>
                           /\ r.tag = "Vacant" /\ r.hash = h
                           /\ r.elem.index = ChainIndex(table, h, FirstStop(table, h))
                           /\ r.elem =
                                 IF IsFull(BucketAt(table.buckets, r.elem.index))
                                 THEN NeqElem(r.elem.index, FirstStop(table, h))
                                 ELSE NoElem(r.elem.index)
            IN  Is(SearchOf(k), make_hash(hash_builder, k))

\* The search of one key finds it behind buckets of an equal displacement,
\* which it did not take, and the search of another stops at a full bucket
\* of a smaller displacement.
C21_Witness ==
    /\ ~panicked
    /\ \E k \in ProbedKeys :
          /\ SearchOf(k).tag = "Occupied"
          /\ DisplacementAt(table, SearchOf(k).index) > 0
          /\ DisplacementAt(table, PrevIndex(table, SearchOf(k).index))
                = DisplacementAt(table, SearchOf(k).index)
    /\ \E k \in ProbedKeys :
          /\ SearchOf(k).tag = "Vacant"
          /\ SearchOf(k).elem.tag = "NeqElem"

\* The bucket stays where it is when the one before it is emptied: it is
\* empty, or full at its ideal index.
StaysAt(t, i) ==
    \/ ~IsFull(BucketAt(t.buckets, i % t.capacity))
    \/ DisplacementAt(t, i % t.capacity) = 0

\* The number of buckets after bucket j that are full and away from their
\* ideal index, up to the first that stays.
ShiftLen(t, j) ==
    CHOOSE n \in 0..(t.capacity - 1) :
        StaysAt(t, j + n + 1) /\ \A q \in 0..(n - 1) : ~StaysAt(t, j + q + 1)

\* The buckets of table t after the removal of bucket j with n buckets
\* shifted back: each of the n is one slot back, the slot of the last is
\* empty, every other bucket is as it was.
ShiftedBack(t, j, n) ==
    [i \in 1..t.capacity |->
        IF (i - 1 + t.capacity - j) % t.capacity < n
            THEN BucketAt(t.buckets, i % t.capacity)
        ELSE IF (i - 1 + t.capacity - j) % t.capacity = n THEN EmptyBucket
        ELSE t.buckets[i]]

\* The bucket that holds key k.
IndexOfKey(t, k) == CHOOSE j \in 0..(t.capacity - 1) : HoldsKey(t, j, k)

\* C22: a remove of a key the table holds at bucket j empties the bucket and
\* shifts each following bucket back by one slot while that bucket is full
\* and has displacement > 0, stopping at the first empty or zero-displacement
\* bucket; one entry less is counted, the value returned is the one stored
\* for the key, the key is absent afterwards and every other key is found
\* with the value it had.
C22_RemoveShiftsBack ==
    [][(last'.op = "remove" /\ last'.ret # None) =>
          LET Popped(j) ==
                  /\ table'.buckets = ShiftedBack(table, j, ShiftLen(table, j))
                  /\ table'.capacity = table.capacity
                  /\ table'.size = table.size - 1
                  /\ last'.ret = Some(BucketAt(table.buckets, j).val)
                  /\ HashMap_get(MapNext, last'.key) = None
                  /\ \A k \in Keys \ {last'.key} :
                        HashMap_get(MapNext, k) = HashMap_get(Map, k)
          IN  Popped(IndexOfKey(table, last'.key))]_vars

\* A remove has shifted entries back and stopped at a full bucket that is
\* at its ideal index: the ideal index of the removed key now holds a key
\* that was behind it, and the run of full buckets from there ends in a gap
\* with a full bucket after it.
C22_Witness ==
    /\ last.op = "remove" /\ last.ret # None /\ table.size > 2
    /\ LET Start == ChainIndex(table, make_hash(hash_builder, last.key), 0)
       IN  /\ IsFull(BucketAt(table.buckets, Start))
           /\ DisplacementAt(table, Start) = 0
           /\ \E n \in 1..(table.capacity - 1) :
                 /\ \A q \in 0..(n - 1) :
                       IsFull(BucketAt(table.buckets, (Start + q) % table.capacity))
                 /\ ~IsFull(BucketAt(table.buckets, (Start + n) % table.capacity))
                 /\ IsFull(BucketAt(table.buckets, (Start + n + 1) % table.capacity))

\* The step is a call on an adaptive map that has returned with no
\* remediation.
PlainInsertion ==
    /\ last'.op \in {"insert", "entry"} /\ ~panicked' /\ ~last'.tripped
    /\ oneshot

\* The search has found a bucket to steal: the insertion is a Robin Hood
\* cascade.
Steals(entry) == entry.tag = "Vacant" /\ entry.elem.tag = "NeqElem"

\* The slot where the last displaced bucket of the cascade has landed: the
\* one bucket that was empty and is full.
LandingIndex(before, after) ==
    CHOOSE i \in 0..(after.capacity - 1) :
        ~IsFull(BucketAt(before.buckets, i)) /\ IsFull(BucketAt(after.buckets, i))

\* The steps from slot a forward to slot b, round a table of capacity c.
Distance(a, b, c) == (b + c - a) % c

\* The forward-shift test on the cascade from start to end is well defined
\* and flags the map exactly when the distance, counted modulo the capacity,
\* exceeds FORWARD_SHIFT_THRESHOLD.
FlagsByDistance(start, end, capacity, overflow_checks) ==
    LET Is(r) ==
            /\ ~r.panicked
            /\ r.flag <=> (Distance(start, end, capacity) > FORWARD_SHIFT_THRESHOLD)
    IN  Is(safeguard_forward_shifted(start, end, overflow_checks))

\* C23: for every cascade, in every build, the forward-shift test does not
\* underflow and flags the map exactly when the distance from the slot of
\* the inserted key to the slot where the last displaced bucket lands,
\* counted modulo the capacity, exceeds FORWARD_SHIFT_THRESHOLD.
C23_ForwardShiftDistance ==
    [][PlainInsertion =>
          LET Flagged(entry, before) ==
                  Steals(entry) =>
                      \A overflow_checks \in BOOLEAN :
                          FlagsByDistance(entry.elem.index,
                                          LandingIndex(before, table'),
                                          table'.capacity, overflow_checks)
              Searched(before) ==
                  Flagged(search_hashed(before, make_hash(hash_builder, last'.key),
                                        last'.key), before)
          IN  Searched(TableAtSearch)]_vars

\* The step is a call on an adaptive map that has searched for its key: its
\* reserve(1) has not failed.
SearchedInsertion ==
    /\ last'.op \in {"insert", "entry"} /\ oneshot
    /\ ~panicked' \/ last'.tripped

\* C24: for the vacant entry at index i that the search of a call finds in a
\* table of capacity c under hash h, VacantEntryState::displacement(h) is
\* (i - (h mod c)) mod c, lies in 0..c-1 and is the number of probe steps
\* from the ideal index to i (the probe count of the search), also when the
\* probe has wrapped round the end of the table; and the safeguard fires
\* exactly when it is strictly greater than DISPLACEMENT_THRESHOLD.
C24_VacantDisplacement ==
    [][SearchedInsertion =>
          LET Measured(entry, t) ==
                  entry.tag = "Vacant" =>
                      LET Is(d, i, h) ==
                              /\ d = (i - WordLow(h, t.capacity)) % t.capacity
                              /\ d \in 0..(t.capacity - 1)
                              /\ ChainIndex(t, h, d) = i
                              /\ d = FirstStop(t, h)
                              /\ entry.elem.tag = "NeqElem" => d = entry.elem.ib
                              /\ last'.tripped <=> d > DISPLACEMENT_THRESHOLD
                      IN  Is(VacantEntryState_displacement(entry.elem, entry.hash,
                                                           t.capacity),
                             entry.elem.index, entry.hash)
              Searched(t) ==
                  Measured(search_hashed(t, make_hash(hash_builder, last'.key),
                                         last'.key), t)
          IN  Searched(TableAtSearch)]_vars

\* A call has placed a new key, with no remediation, in a bucket below the
\* ideal index of the key: the probe had wrapped round the end of the table
\* and the displacement was measured from there.
C24_Witness ==
    /\ oneshot /\ ~panicked /\ ~last.tripped
    /\ \/ last.op = "insert" /\ last.ret = None
       \/ last.op = "entry" /\ last.ret = "Vacant"
    /\ SearchOf(last.key).tag = "Occupied"
    /\ SearchOf(last.key).index
          < ChainIndex(table, make_hash(hash_builder, last.key), 0)

=============================================================================
